---- MODULE Spec2Model ----
(***************************************************************************)
(* Availability / slot computation and booking conflict resolution of the  *)
(* calendar-book server (server/src/services).                             *)
(*                                                                         *)
(* Time is counted in minutes since a Monday 00:00 UTC.  A timezone is a   *)
(* fixed UTC offset in minutes (no DST transitions inside the horizon).    *)
(* A calendar date is the number of the organizer-local day, and a wall    *)
(* clock "HH:MM" string is the pair <<HH, MM>>.                            *)
(***************************************************************************)
EXTENDS Integers, Sequences, FiniteSets, TLC

VARIABLES
    bookings,   \* the bookings table: a sequence of rows, the id is the index
    settings,   \* the organizer_settings table: organizer -> policy or NoSettings
    now,        \* the clock read by DateTime.now()
    procs,      \* the in-flight requests, one record per request handler
    pin         \* inputs of the pure-function harness (policy, rows, clock, candidate)

vars == <<bookings, settings, now, procs, pin>>

----------------------------------------------------------------------------
(* Calendar arithmetic (luxon DateTime in a fixed-offset zone).            *)

MinutesPerHour == 60
MinutesPerDay == 24 * MinutesPerHour

\* DateTime.fromJSDate(t, { zone }): the wall-clock minute count of instant t.
LocalMinutes(t, tz) == t + tz

\* startDt.toISODate(): the organizer-local calendar date.
ISODate(t, tz) == LocalMinutes(t, tz) \div MinutesPerDay

\* startDt.weekday: 1 = Monday .. 7 = Sunday.
Weekday(t, tz) == (ISODate(t, tz) % 7) + 1

\* startDt.toFormat('HH:mm') followed by split(':').map(Number).
HHmm(t, tz) ==
    LET m == LocalMinutes(t, tz) % MinutesPerDay
    IN  <<m \div MinutesPerHour, m % MinutesPerHour>>

\* hour * 60 + minute of a parsed "HH:MM".
ToMinutes(hm) == hm[1] * MinutesPerHour + hm[2]

\* date.startOf('day') as an instant.
StartOfDay(t, tz) == ISODate(t, tz) * MinutesPerDay - tz

\* slotStart.setZone(targetTimezone).toISO(): wall clock plus explicit offset.
ToISO(t, zone) == [local |-> t + zone, offset |-> zone]

\* DateTime.fromISO(text).toUTC(): the instant an offset-carrying text denotes.
FromISO(iso) == iso.local - iso.offset

NoWorkingHour == [day |-> 0, start |-> <<0, 0>>, end |-> <<0, 0>>]

\* workingHours.find(wh => wh.day === weekday): the first matching entry.
FindWorkingHour(workingHours, weekday) ==
    LET hits == {i \in 1..Len(workingHours) : workingHours[i].day = weekday}
    IN  IF hits = {} THEN NoWorkingHour
        ELSE workingHours[CHOOSE i \in hits : \A j \in hits : i <= j]

----------------------------------------------------------------------------
(* Rows and policies.                                                      *)

NoSettings == [none |-> TRUE]
NoRow == [none |-> TRUE]

\* An instant given as week, day of the week (0 = Monday) and UTC wall clock.
At(week, day, hour, minute) ==
    (week * 7 + day) * MinutesPerDay + hour * MinutesPerHour + minute

WeekDays(from, to, start, end) ==
    [d \in 1..(to - from + 1) |-> [day |-> from + d - 1, start |-> start, end |-> end]]

\* The settings row startServer seeds for the seed organizer
\* (America/New_York taken at its standard offset, UTC-5).
SeedSettings ==
    [timezone |-> -300,
     workingHours |-> WeekDays(1, 5, <<9, 0>>, <<17, 0>>),
     meetingDuration |-> 30,
     bufferBefore |-> 0,
     bufferAfter |-> 0,
     minimumNotice |-> 24,
     blackoutDates |-> {}]

\* The organizer ids requests name: the seeded organizer and an id no
\* settings row carries at startup.
Organizers == {"seed", "ghost"}

\* settingsRepo.findOne({ where: { userId } }): the rows that match; the
\* query has no ORDER BY, so any of them may be the one returned.
FindSettings(table, userId) ==
    {i \in 1..Len(table) : table[i].userId = userId}

\* The rows a query sees: each row with its primary key.
Ids(rows) == 1..Len(rows)

CountOverlappingSelfIncluded(rows, organizerId, startTime, endTime, excludeBookingId) ==
    Cardinality({i \in Ids(rows) :
        /\ rows[i].organizerId = organizerId
        /\ rows[i].status = "confirmed"
        /\ rows[i].startTime < endTime
        /\ rows[i].endTime > startTime})

CountOverlappingStartInside(rows, organizerId, startTime, endTime, excludeBookingId) ==
    Cardinality({i \in Ids(rows) :
        /\ rows[i].organizerId = organizerId
        /\ rows[i].status = "confirmed"
        /\ rows[i].startTime >= startTime
        /\ rows[i].startTime < endTime
        /\ (excludeBookingId # 0 => i # excludeBookingId)})

\* createQueryBuilder ... getCount(): confirmed rows of the organizer that
\* intersect [startTime, endTime), leaving out excludeBookingId (0 = none).
CountOverlapping(rows, organizerId, startTime, endTime, excludeBookingId) ==
    Cardinality({i \in Ids(rows) :
        /\ rows[i].organizerId = organizerId
        /\ rows[i].status = "confirmed"
        /\ rows[i].startTime < endTime
        /\ rows[i].endTime > startTime
        /\ (excludeBookingId # 0 => i # excludeBookingId)})

\* bookingRepo.find({ where: { organizerId, status: 'confirmed' } })
FindConfirmed(rows, organizerId) ==
    {[id |-> i, startTime |-> rows[i].startTime, endTime |-> rows[i].endTime] :
        i \in {j \in Ids(rows) : rows[j].organizerId = organizerId
                                  /\ rows[j].status = "confirmed"}}

----------------------------------------------------------------------------
(* The two slot validators.  Each returns the message of the Error it      *)
(* throws, or "ok" when it returns normally.                               *)

MsgNotice == "Booking violates minimum notice requirement"
MsgBlocked == "Date is blocked"
MsgOutside == "Outside working hours"
MsgConflict == "Slot conflicts with existing booking"

BookingValidateSlotNoticeExclusive(rows, organizerId, s, startTime, endTime, clock) ==
    IF startTime <= clock + s.minimumNotice * MinutesPerHour THEN MsgNotice
    ELSE IF ISODate(startTime, s.timezone) \in s.blackoutDates THEN MsgBlocked
    ELSE IF FindWorkingHour(s.workingHours, Weekday(startTime, s.timezone))
               = NoWorkingHour THEN MsgOutside
    ELSE IF CountOverlapping(rows, organizerId, startTime, endTime, 0) > 0
         THEN MsgConflict
    ELSE "ok"

\* BookingService.validateSlot (booking creation).
BookingValidateSlot(rows, organizerId, s, startTime, endTime, clock) ==
    LET workingHour == FindWorkingHour(s.workingHours, Weekday(startTime, s.timezone))
    IN  IF startTime < clock + s.minimumNotice * MinutesPerHour THEN MsgNotice
        ELSE IF ISODate(startTime, s.timezone) \in s.blackoutDates THEN MsgBlocked
        ELSE IF workingHour = NoWorkingHour THEN MsgOutside
        ELSE IF CountOverlapping(rows, organizerId, startTime, endTime, 0) > 0
             THEN MsgConflict
        ELSE "ok"

\* OrganizerService.validateSlot (reschedule).
OrganizerValidateSlot(rows, organizerId, s, startTime, endTime, excludeBookingId, clock) ==
    LET workingHour == FindWorkingHour(s.workingHours, Weekday(startTime, s.timezone))
        startHM == HHmm(startTime, s.timezone)
        endHM == HHmm(startTime + s.meetingDuration, s.timezone)
    IN  IF startTime < clock + s.minimumNotice * MinutesPerHour THEN MsgNotice
        ELSE IF ISODate(startTime, s.timezone) \in s.blackoutDates THEN MsgBlocked
        ELSE IF workingHour = NoWorkingHour THEN MsgOutside
        ELSE IF \/ ToMinutes(startHM) < ToMinutes(workingHour.start)
                \/ ToMinutes(endHM) > ToMinutes(workingHour.end)
             THEN MsgOutside
        ELSE IF CountOverlapping(rows, organizerId, startTime, endTime,
                                 excludeBookingId) > 0
             THEN MsgConflict
        ELSE "ok"

----------------------------------------------------------------------------
(* SlotGeneratorService.generateSlots.                                     *)

WindowDays == 14

HasConflictIgnored(s, existingBookings, slotStart, slotEnd) == FALSE

HasConflictBuffersSwapped(s, existingBookings, slotStart, slotEnd) ==
    \E b \in existingBookings :
        slotStart - s.bufferAfter < b.endTime /\ slotEnd + s.bufferBefore > b.startTime

\* existingBookings.some(...): the candidate, widened by the buffers,
\* intersects a booking.
HasConflict(s, existingBookings, slotStart, slotEnd) ==
    \E b \in existingBookings :
        LET slotStartWithBuffer == slotStart - s.bufferBefore
            slotEndWithBuffer == slotEnd + s.bufferAfter
        IN  slotStartWithBuffer < b.endTime /\ slotEndWithBuffer > b.startTime

RECURSIVE DaySlotsPartialTrailing(_, _, _, _, _, _)
DaySlotsPartialTrailing(s, existingBookings, targetTimezone, clock, slotStart, dayEnd) ==
    IF slotStart < dayEnd
    THEN LET slotEnd == slotStart + s.meetingDuration
             rest == DaySlotsPartialTrailing(s, existingBookings, targetTimezone,
                         clock, slotStart + s.meetingDuration, dayEnd)
         IN  IF slotStart < clock + s.minimumNotice * MinutesPerHour THEN rest
             ELSE <<[start |-> ToISO(slotStart, targetTimezone),
                     end |-> ToISO(slotEnd, targetTimezone)]>> \o rest
    ELSE <<>>

\* The while loop over one working day.
RECURSIVE DaySlots(_, _, _, _, _, _)
DaySlots(s, existingBookings, targetTimezone, clock, slotStart, dayEnd) ==
    IF slotStart + s.meetingDuration <= dayEnd
    THEN LET slotEnd == slotStart + s.meetingDuration
             rest == DaySlots(s, existingBookings, targetTimezone, clock,
                              slotStart + s.meetingDuration, dayEnd)
         IN  IF slotStart < clock + s.minimumNotice * MinutesPerHour THEN rest
             ELSE IF ~HasConflict(s, existingBookings, slotStart, slotEnd)
                  THEN <<[start |-> ToISO(slotStart, targetTimezone),
                          end |-> ToISO(slotEnd, targetTimezone)]>> \o rest
             ELSE rest
    ELSE <<>>

\* The for loop over the organizer-local days of the window.
RECURSIVE WindowSlots(_, _, _, _, _, _)
WindowSlots(s, existingBookings, targetTimezone, clock, date, endDate) ==
    IF date < endDate
    THEN LET workingHour == FindWorkingHour(s.workingHours, Weekday(date, s.timezone))
             rest == WindowSlots(s, existingBookings, targetTimezone, clock,
                                 date + MinutesPerDay, endDate)
         IN  IF ISODate(date, s.timezone) \in s.blackoutDates THEN rest
             ELSE IF workingHour = NoWorkingHour THEN rest
             ELSE DaySlots(s, existingBookings, targetTimezone, clock,
                           date + ToMinutes(workingHour.start),
                           date + ToMinutes(workingHour.end)) \o rest
    ELSE <<>>

GenerateSlotsBlackoutIgnored(s, existingBookings, targetTimezone, clock) ==
    WindowSlots([s EXCEPT !.blackoutDates = {}], existingBookings, targetTimezone,
                clock, StartOfDay(clock, s.timezone), clock + WindowDays * MinutesPerDay)

GenerateSlots(s, existingBookings, targetTimezone, clock) ==
    WindowSlots(s, existingBookings, targetTimezone, clock,
                StartOfDay(clock, s.timezone), clock + WindowDays * MinutesPerDay)

----------------------------------------------------------------------------
(* Storage: what repository.save does to the bookings table.               *)

NoUniqueIndex(rows, id, r) == FALSE

UniqueIndexAllStatuses(rows, id, r) ==
    \E i \in Ids(rows) :
        /\ i # id
        /\ rows[i].organizerId = r.organizerId
        /\ rows[i].startTime = r.startTime

\* The partial unique index on (organizerId, startTime) where
\* status = 'confirmed': would row r, stored under id, collide?
ViolatesUniqueIndex(rows, id, r) ==
    /\ r.status = "confirmed"
    /\ \E i \in Ids(rows) :
          /\ i # id
          /\ rows[i].status = "confirmed"
          /\ rows[i].organizerId = r.organizerId
          /\ rows[i].startTime = r.startTime

SavedRowAlwaysWritten(dbRow, entity) ==
    [organizerId |-> dbRow.organizerId,
     startTime |-> entity.startTime,
     endTime |-> entity.endTime,
     status |-> entity.status,
     version |-> dbRow.version + 1]

\* save() of a loaded entity: the columns that differ from the stored row
\* are written by primary key and the version column is incremented; the
\* stored version is not compared with the one the entity was read at.  An
\* entity equal to the stored row issues no UPDATE.
SavedRow(dbRow, entity) ==
    IF /\ entity.startTime = dbRow.startTime
       /\ entity.endTime = dbRow.endTime
       /\ entity.status = dbRow.status
    THEN dbRow
    ELSE [organizerId |-> dbRow.organizerId,
          startTime |-> entity.startTime,
          endTime |-> entity.endTime,
          status |-> entity.status,
          version |-> dbRow.version + 1]

\* save() of a new entity: the row INSERTed, with the column defaults.
InsertedRow(organizerId, startTime, endTime) ==
    [organizerId |-> organizerId,
     startTime |-> startTime,
     endTime |-> endTime,
     status |-> "confirmed",
     version |-> 1]

\* The errorHandler / controller outcome messages that are not validation
\* messages.
MsgBooked == "Slot already booked"
MsgOrganizerNotFound == "Organizer not found"
MsgBookingNotFound == "Booking not found"
MsgSettingsNotFound == "Settings not found"
MsgInvalidAction == "Invalid action"
MsgDuplicateKey == "duplicate key value violates unique constraint"
Committed == "Committed"

----------------------------------------------------------------------------
(* The errorHandler middleware: the response an Error thrown by a public   *)
(* handler gets.  A message is read as its sequence of words, so that      *)
(* String.includes is decided by the text (it is case-sensitive).          *)

MsgInternal == "Internal server error"

Text(message) ==
    CASE message = MsgNotice ->
            <<"Booking", "violates", "minimum", "notice", "requirement">>
      [] message = MsgBlocked -> <<"Date", "is", "blocked">>
      [] message = MsgOutside -> <<"Outside", "working", "hours">>
      [] message = MsgConflict ->
            <<"Slot", "conflicts", "with", "existing", "booking">>
      [] message = MsgBooked -> <<"Slot", "already", "booked">>
      [] message = MsgOrganizerNotFound -> <<"Organizer", "not", "found">>
      [] message = MsgBookingNotFound -> <<"Booking", "not", "found">>
      [] message = MsgSettingsNotFound -> <<"Settings", "not", "found">>
      [] message = MsgInvalidAction -> <<"Invalid", "action">>
      [] message = MsgDuplicateKey ->
            <<"duplicate", "key", "value", "violates", "unique", "constraint">>
      [] OTHER -> <<message>>

\* err.message.includes(words): the words occur in a row in the message.
Includes(message, words) ==
    LET text == Text(message)
    IN  \E i \in 1..Len(text) :
           /\ i + Len(words) - 1 <= Len(text)
           /\ \A j \in 1..Len(words) : text[i + j - 1] = words[j]

ErrorHandler(message) ==
    IF message = MsgBooked THEN [status |-> 409, error |-> message]
    ELSE IF Includes(message, <<"not", "found">>)
         THEN [status |-> 404, error |-> message]
    ELSE IF \/ Includes(message, <<"violates">>)
            \/ Includes(message, <<"Outside">>)
            \/ Includes(message, <<"Booking">>)
         THEN [status |-> 400, error |-> message]
    ELSE [status |-> 500, error |-> MsgInternal]

----------------------------------------------------------------------------
(* The request handlers.  Every await of a handler is one step; the code   *)
(* between two awaits runs with the step that follows it.  A createBooking *)
(* call also notes, in began, how many rows the table held when it began.  *)

MaxBookings == 2
MaxVersion == 3
MaxTicks == 1

Procs == {"p1", "p2"}

Now0 == At(1, 0, 5, 0)
TickMinutes == 12 * MinutesPerHour

\* A second policy an organizer may PUT.
AltSettings ==
    [timezone |-> 0,
     workingHours |-> WeekDays(2, 2, <<14, 0>>, <<15, 0>>),
     meetingDuration |-> 60,
     bufferBefore |-> 5,
     bufferAfter |-> 10,
     minimumNotice |-> 0,
     blackoutDates |-> {}]

Policies == {SeedSettings, AltSettings}

\* The start times requests ask for: Tuesday 09:00, 09:15 and 08:00, New York
\* wall clock.
StartTimes == {At(1, 1, 14, 0), At(1, 1, 14, 15), At(1, 1, 13, 0)}

Actions == {"cancel", "reschedule", "noop"}

Idle ==
    [kind |-> "idle", pc |-> "idle", organizerId |-> "", startTime |-> 0,
     endTime |-> 0, bookingId |-> 0, action |-> "", entity |-> NoRow,
     s |-> NoSettings, result |-> "", began |-> 0]

\* The handler returns or throws: its locals are gone, the outcome is left.
Finish(pr, result) ==
    [Idle EXCEPT !.kind = pr.kind, !.pc = "done", !.organizerId = pr.organizerId,
                 !.bookingId = pr.bookingId, !.action = pr.action,
                 !.startTime = pr.startTime, !.endTime = pr.endTime,
                 !.began = pr.began, !.result = result]

InFlight(kind) ==
    {p \in Procs : procs[p].kind = kind /\ procs[p].pc # "done"}

TypeOK ==
    /\ Len(bookings) <= MaxBookings
    /\ \A i \in Ids(bookings) : bookings[i].version \in 1..MaxVersion
    /\ \A p \in Procs : procs[p].pc \in
          {"idle", "validate", "save", "cancelSave", "findSettings",
           "saveSettings", "done"}

Init ==
    /\ bookings = <<>>
    /\ settings = <<[userId |-> "seed", policy |-> SeedSettings]>>
    /\ now = Now0
    /\ procs = [p \in Procs |-> Idle]
    /\ pin = [phase |-> "off"]

\* BookingService.createBooking, up to the first await inside validateSlot:
\* settingsRepo.findOne, then the start and end instants.
CreateBegin(p, organizerId, dto) ==
    /\ procs[p].pc = "idle"
    /\ Len(bookings) + Cardinality(InFlight("create")) < MaxBookings
    /\ LET found == FindSettings(settings, organizerId)
           startTimeUtc == FromISO(dto.startTime)
       IN  IF found = {}
           THEN procs' = [procs EXCEPT ![p] =
                    Finish([Idle EXCEPT !.kind = "create",
                                        !.organizerId = organizerId],
                           MsgOrganizerNotFound)]
           ELSE \E i \in found :
                  procs' = [procs EXCEPT ![p] =
                    [Idle EXCEPT !.kind = "create", !.pc = "validate",
                                 !.organizerId = organizerId,
                                 !.began = Len(bookings),
                                 !.s = settings[i].policy,
                                 !.startTime = startTimeUtc,
                                 !.endTime = startTimeUtc
                                     + settings[i].policy.meetingDuration]]
    /\ UNCHANGED <<bookings, settings, now, pin>>

\* validateSlot of the creation path: the checks and the overlap count.
CreateValidate(p) ==
    /\ procs[p].kind = "create" /\ procs[p].pc = "validate"
    /\ LET pr == procs[p]
           verdict == BookingValidateSlot(bookings, pr.organizerId, pr.s,
                                          pr.startTime, pr.endTime, now)
       IN  procs' = [procs EXCEPT ![p] =
               IF verdict = "ok" THEN [pr EXCEPT !.pc = "save"]
               ELSE Finish(pr, verdict)]
    /\ UNCHANGED <<bookings, settings, now, pin>>

CreateSaveRetrying(p) ==
    /\ procs[p].kind = "create" /\ procs[p].pc = "save"
    /\ LET pr == procs[p]
           row == InsertedRow(pr.organizerId, pr.startTime, pr.endTime)
       IN  IF ViolatesUniqueIndex(bookings, 0, row)
           THEN /\ procs' = [procs EXCEPT ![p] = [pr EXCEPT !.pc = "validate"]]
                /\ UNCHANGED bookings
           ELSE /\ bookings' = Append(bookings, row)
                /\ procs' = [procs EXCEPT ![p] =
                       Finish([pr EXCEPT !.bookingId = Len(bookings) + 1],
                              Committed)]
    /\ UNCHANGED <<settings, now, pin>>

\* The transaction: INSERT and commit, or rollback on error 23505.
CreateSave(p) ==
    /\ procs[p].kind = "create" /\ procs[p].pc = "save"
    /\ LET pr == procs[p]
           row == InsertedRow(pr.organizerId, pr.startTime, pr.endTime)
       IN  IF ViolatesUniqueIndex(bookings, 0, row)
           THEN /\ procs' = [procs EXCEPT ![p] = Finish(pr, MsgBooked)]
                /\ UNCHANGED bookings
           ELSE /\ bookings' = Append(bookings, row)
                /\ procs' = [procs EXCEPT ![p] =
                       Finish([pr EXCEPT !.bookingId = Len(bookings) + 1],
                              Committed)]
    /\ UNCHANGED <<settings, now, pin>>

\* OrganizerService.updateBooking up to its second await: findOne by id,
\* then the dispatch on dto.action.
UpdateBegin(p, bookingId, action, newStartTime) ==
    /\ procs[p].pc = "idle"
    /\ bookingId \in Ids(bookings) =>
          bookings[bookingId].version
            + Cardinality({q \in InFlight("update") :
                              procs[q].bookingId = bookingId}) < MaxVersion
    /\ LET pr == [Idle EXCEPT !.kind = "update", !.bookingId = bookingId,
                              !.action = action]
       IN  procs' = [procs EXCEPT ![p] =
             IF bookingId \notin Ids(bookings)
             THEN Finish(pr, MsgBookingNotFound)
             ELSE LET booking == bookings[bookingId]
                      got == [pr EXCEPT !.entity = booking,
                                        !.organizerId = booking.organizerId]
                  IN  IF action = "cancel"
                      THEN [got EXCEPT !.pc = "cancelSave"]
                      ELSE IF action = "reschedule" /\ newStartTime # 0
                      THEN [got EXCEPT !.pc = "findSettings",
                                       !.startTime = newStartTime]
                      ELSE Finish(got, MsgInvalidAction)]
    /\ UNCHANGED <<bookings, settings, now, pin>>

\* booking.status = 'cancelled'; bookingRepo.save(booking).
UpdateCancelSave(p) ==
    /\ procs[p].kind = "update" /\ procs[p].pc = "cancelSave"
    /\ LET pr == procs[p]
           id == pr.bookingId
           entity == [pr.entity EXCEPT !.status = "cancelled"]
       IN  /\ bookings' = [bookings EXCEPT ![id] = SavedRow(bookings[id], entity)]
           /\ procs' = [procs EXCEPT ![p] =
                  Finish(pr, Committed)]
    /\ UNCHANGED <<settings, now, pin>>

\* The reschedule branch: settingsRepo.findOne, then the new end instant.
UpdateFindSettings(p) ==
    /\ procs[p].kind = "update" /\ procs[p].pc = "findSettings"
    /\ LET pr == procs[p]
           found == FindSettings(settings, pr.organizerId)
       IN  IF found = {}
           THEN procs' = [procs EXCEPT ![p] = Finish(pr, MsgSettingsNotFound)]
           ELSE \E i \in found :
                  procs' = [procs EXCEPT ![p] =
                     [pr EXCEPT !.pc = "validate",
                                !.s = settings[i].policy,
                                !.endTime = pr.startTime
                                    + settings[i].policy.meetingDuration]]
    /\ UNCHANGED <<bookings, settings, now, pin>>

\* validateSlot of the reschedule path, the booking itself excluded.
UpdateValidate(p) ==
    /\ procs[p].kind = "update" /\ procs[p].pc = "validate"
    /\ LET pr == procs[p]
           verdict == OrganizerValidateSlot(bookings, pr.organizerId, pr.s,
                          pr.startTime, pr.endTime, pr.bookingId, now)
       IN  procs' = [procs EXCEPT ![p] =
               IF verdict = "ok" THEN [pr EXCEPT !.pc = "save"]
               ELSE Finish(pr, verdict)]
    /\ UNCHANGED <<bookings, settings, now, pin>>

UpdateSavePartialWrite(p) ==
    /\ procs[p].kind = "update" /\ procs[p].pc = "save"
    /\ LET pr == procs[p]
           id == pr.bookingId
           entity == [pr.entity EXCEPT !.startTime = pr.startTime,
                                       !.endTime = pr.endTime]
           row == SavedRow(bookings[id], entity)
       IN  IF ViolatesUniqueIndex(bookings, id, row)
           THEN /\ procs' = [procs EXCEPT ![p] = Finish(pr, MsgDuplicateKey)]
                /\ bookings' = [bookings EXCEPT ![id].endTime = row.endTime]
           ELSE /\ bookings' = [bookings EXCEPT ![id] = row]
                /\ procs' = [procs EXCEPT ![p] = Finish(pr, Committed)]
    /\ UNCHANGED <<settings, now, pin>>

\* booking.startTime = newStartTime; booking.endTime = newEndTime;
\* bookingRepo.save(booking).  A unique-index violation is not caught.
UpdateSave(p) ==
    /\ procs[p].kind = "update" /\ procs[p].pc = "save"
    /\ LET pr == procs[p]
           id == pr.bookingId
           entity == [pr.entity EXCEPT !.startTime = pr.startTime,
                                       !.endTime = pr.endTime]
           row == SavedRow(bookings[id], entity)
       IN  IF ViolatesUniqueIndex(bookings, id, row)
           THEN /\ procs' = [procs EXCEPT ![p] =
                       Finish(pr, MsgDuplicateKey)]
                /\ UNCHANGED bookings
           ELSE /\ bookings' = [bookings EXCEPT ![id] = row]
                /\ procs' = [procs EXCEPT ![p] =
                       Finish(pr, Committed)]
    /\ UNCHANGED <<settings, now, pin>>

UpdateSettingsRetroactive(organizerId, dto) ==
    /\ LET found == FindSettings(settings, organizerId)
       IN  IF found = {}
           THEN settings' = Append(settings, [userId |-> organizerId, policy |-> dto])
           ELSE \E i \in found :
                  /\ settings[i].policy # dto
                  /\ settings' = [settings EXCEPT ![i].policy = dto]
    /\ bookings' = [i \in Ids(bookings) |->
           IF bookings[i].organizerId = organizerId
           THEN [bookings[i] EXCEPT !.endTime = bookings[i].startTime
                                                   + dto.meetingDuration]
           ELSE bookings[i]]
    /\ UNCHANGED <<now, procs, pin>>

\* OrganizerService.updateSettings: findOne, then create or assign, then save.
UpdateSettings(organizerId, dto) ==
    /\ LET found == FindSettings(settings, organizerId)
       IN  IF found = {}
           THEN settings' = Append(settings, [userId |-> organizerId, policy |-> dto])
           ELSE \E i \in found :
                  /\ settings[i].policy # dto
                  /\ settings' = [settings EXCEPT ![i].policy = dto]
    /\ UNCHANGED <<bookings, now, procs, pin>>

\* OrganizerService.updateSettings up to its second await: findOne, then
\* create (no row found) or Object.assign on the row found.
UpdateSettingsFind(p, organizerId, dto) ==
    /\ procs[p].pc = "idle"
    /\ LET found == FindSettings(settings, organizerId)
           pr == [Idle EXCEPT !.kind = "settings", !.pc = "saveSettings",
                              !.organizerId = organizerId, !.s = dto]
       IN  IF found = {}
           THEN procs' = [procs EXCEPT ![p] = pr]
           ELSE \E i \in found :
                  procs' = [procs EXCEPT ![p] = [pr EXCEPT !.entity = [id |-> i]]]
    /\ UNCHANGED <<bookings, settings, now, pin>>

\* settingsRepo.save(settings): INSERT of the created entity, or UPDATE by
\* primary key of the one found.  userId carries no unique constraint.
UpdateSettingsSave(p) ==
    /\ procs[p].kind = "settings" /\ procs[p].pc = "saveSettings"
    /\ LET pr == procs[p]
       IN  /\ settings' =
                 IF pr.entity = NoRow
                 THEN Append(settings, [userId |-> pr.organizerId, policy |-> pr.s])
                 ELSE [settings EXCEPT ![pr.entity.id].policy = pr.s]
           /\ procs' = [procs EXCEPT ![p] = Finish(pr, Committed)]
    /\ UNCHANGED <<bookings, now, pin>>

\* The response is sent and the handler is free again.
Respond(p) ==
    /\ procs[p].pc = "done"
    /\ procs' = [procs EXCEPT ![p] = Idle]
    /\ UNCHANGED <<bookings, settings, now, pin>>

\* Time passes.
Tick ==
    /\ now < Now0 + MaxTicks * TickMinutes
    /\ now' = now + TickMinutes
    /\ UNCHANGED <<bookings, settings, procs, pin>>

Next ==
    \/ \E p \in Procs, o \in Organizers, t \in StartTimes :
          CreateBegin(p, o, [startTime |-> ToISO(t, 0)])
    \/ \E p \in Procs : CreateValidate(p)
    \/ \E p \in Procs : CreateSave(p)
    \/ \E p \in Procs, id \in 1..MaxBookings, a \in Actions,
          t \in StartTimes \cup {0} : UpdateBegin(p, id, a, t)
    \/ \E p \in Procs : UpdateCancelSave(p)
    \/ \E p \in Procs : UpdateFindSettings(p)
    \/ \E p \in Procs : UpdateValidate(p)
    \/ \E p \in Procs : UpdateSave(p)
    \/ \E p \in Procs : Respond(p)
    \/ Tick

Spec == Init /\ [][Next]_vars

\* The handler that serves the organizer's session.
OrganizerProcs == {"p2"}

\* The booking endpoints at one clock value: invitees post on every handler,
\* the organizer's PATCH requests arrive one at a time.
NextRequests ==
    \/ \E p \in Procs, o \in Organizers, t \in StartTimes :
          CreateBegin(p, o, [startTime |-> ToISO(t, 0)])
    \/ \E p \in Procs : CreateValidate(p)
    \/ \E p \in Procs : CreateSave(p)
    \/ \E p \in OrganizerProcs, id \in 1..MaxBookings, a \in Actions,
          t \in StartTimes \cup {0} : UpdateBegin(p, id, a, t)
    \/ \E p \in Procs : UpdateCancelSave(p)
    \/ \E p \in Procs : UpdateFindSettings(p)
    \/ \E p \in Procs : UpdateValidate(p)
    \/ \E p \in Procs : UpdateSave(p)
    \/ \E p \in Procs : Respond(p)

SpecRequests == Init /\ [][NextRequests]_vars

\* The handler that serves every request when requests do not overlap.
SequentialProc == "p1"

\* Sequential execution: one handler, so each createBooking, reschedule and
\* cancel runs to completion before the next request starts; updateSettings
\* runs between two requests.
NextSequential ==
    \/ \E o \in Organizers, t \in StartTimes :
          CreateBegin(SequentialProc, o, [startTime |-> ToISO(t, 0)])
    \/ CreateValidate(SequentialProc)
    \/ CreateSave(SequentialProc)
    \/ \E id \in 1..MaxBookings, a \in Actions, t \in StartTimes \cup {0} :
          UpdateBegin(SequentialProc, id, a, t)
    \/ UpdateCancelSave(SequentialProc)
    \/ UpdateFindSettings(SequentialProc)
    \/ UpdateValidate(SequentialProc)
    \/ UpdateSave(SequentialProc)
    \/ \E dto \in Policies :
          /\ procs[SequentialProc].pc \in {"idle", "done"}
          /\ UpdateSettings("seed", dto)
    \/ Respond(SequentialProc)

SpecSequential == Init /\ [][NextSequential]_vars

\* Only PUT /organizer/settings is called, by either organizer.
NextSettings ==
    \/ \E p \in Procs, o \in Organizers, dto \in Policies :
          UpdateSettingsFind(p, o, dto)
    \/ \E p \in Procs : UpdateSettingsSave(p)
    \/ \E p \in Procs : Respond(p)

SpecSettings == Init /\ [][NextSettings]_vars

\* The organizer whose token the PATCH requests carry in SpecForeign: an
\* organizer who owns no booking.
SessionUser == "ghost"

\* OrganizerController.updateBooking behind authMiddleware and isOrganizer:
\* req.user must be present; only req.params.id and req.body are passed on.
ControllerUpdateBooking(p, user, bookingId, action, newStartTime) ==
    /\ user # ""
    /\ UpdateBegin(p, bookingId, action, newStartTime)

\* Invitees book the seed organizer; every PATCH comes from SessionUser.
NextForeign ==
    \/ \E p \in Procs, o \in Organizers, t \in StartTimes :
          CreateBegin(p, o, [startTime |-> ToISO(t, 0)])
    \/ \E p \in Procs : CreateValidate(p)
    \/ \E p \in Procs : CreateSave(p)
    \/ \E p \in OrganizerProcs, id \in 1..MaxBookings, a \in Actions,
          t \in StartTimes \cup {0} :
          ControllerUpdateBooking(p, SessionUser, id, a, t)
    \/ \E p \in Procs : UpdateCancelSave(p)
    \/ \E p \in Procs : UpdateFindSettings(p)
    \/ \E p \in Procs : UpdateValidate(p)
    \/ \E p \in Procs : UpdateSave(p)
    \/ \E p \in Procs : Respond(p)

SpecForeign == Init /\ [][NextForeign]_vars

\* Only the public booking endpoint is called.
NextCreate ==
    \/ \E p \in Procs, o \in Organizers, t \in StartTimes :
          CreateBegin(p, o, [startTime |-> ToISO(t, 0)])
    \/ \E p \in Procs : CreateValidate(p)
    \/ \E p \in Procs : CreateSave(p)
    \/ \E p \in Procs : Respond(p)
    \/ Tick

SpecCreate == Init /\ [][NextCreate]_vars

\* The same, with every awaited storage call returning: the continuation
\* after an await is run by the event loop once its promise settles.
SpecCreateLive ==
    /\ SpecCreate
    /\ \A p \in Procs : WF_vars(CreateValidate(p)) /\ WF_vars(CreateSave(p))

----------------------------------------------------------------------------
(* Claims about the concurrent request handlers (specification Spec).      *)

Overlap(a, b) == a.startTime < b.endTime /\ b.startTime < a.endTime

\* C1: no two distinct confirmed bookings of one organizer have intersecting
\* [startTime, endTime) intervals, in any state concurrent create, reschedule
\* and cancel requests can reach.
C1_NoOverlap ==
    \A i, j \in Ids(bookings) :
        (/\ i # j
         /\ bookings[i].organizerId = bookings[j].organizerId
         /\ bookings[i].status = "confirmed"
         /\ bookings[j].status = "confirmed")
        => ~Overlap(bookings[i], bookings[j])

MsgConcurrentModification == "ConcurrentModification"

\* Process p takes the save step of a reschedule.
RescheduleSaves(p) ==
    /\ procs[p].kind = "update" /\ procs[p].action = "reschedule"
    /\ procs[p].pc = "save" /\ procs'[p].pc = "done"

\* C3: a reschedule whose view of the booking is stale because another
\* reschedule committed after it read the booking (the stored version is
\* larger and the stored start differs from the one read and from the one
\* asked for) ends with ConcurrentModification and leaves the stored
\* startTime, endTime and version as they are.
C3_StaleRescheduleRejected ==
    [][\A p \in Procs :
         (/\ RescheduleSaves(p)
          /\ bookings[procs[p].bookingId].status = "confirmed"
          /\ procs[p].entity.status = "confirmed"
          /\ bookings[procs[p].bookingId].version > procs[p].entity.version
          /\ bookings[procs[p].bookingId].startTime # procs[p].entity.startTime
          /\ bookings[procs[p].bookingId].startTime # procs[p].startTime)
         => /\ procs'[p].result = MsgConcurrentModification
            /\ bookings' = bookings]_vars

\* C4: a reschedule that read the booking as confirmed and saves after a
\* cancel of the same booking committed fails and does not overwrite the
\* cancel: the row is left as the cancel left it.
C4_RescheduleAfterCancelFails ==
    [][\A p \in Procs :
         (/\ RescheduleSaves(p)
          /\ procs[p].entity.status = "confirmed"
          /\ bookings[procs[p].bookingId].status = "cancelled")
         => /\ procs'[p].result # Committed
            /\ bookings' = bookings]_vars

\* C5: a stored status 'cancelled' stays 'cancelled' in every later state.
C5_CancelledIsTerminal ==
    [][\A i \in Ids(bookings) :
         bookings[i].status = "cancelled" => bookings'[i].status = "cancelled"]_vars

\* [start, start + meetingDuration) lies, in organizer-local HH:MM terms,
\* inside the working hours of the start's organizer-local weekday.
WithinWorkingHours(s, startTime) ==
    LET wh == FindWorkingHour(s.workingHours, Weekday(startTime, s.timezone))
        startMin == ToMinutes(HHmm(startTime, s.timezone))
    IN  /\ wh # NoWorkingHour
        /\ ToMinutes(wh.start) <= startMin
        /\ startMin + s.meetingDuration <= ToMinutes(wh.end)

\* C8: createBooking's validation never lets a candidate outside the working
\* hours through: it is rejected with OutsideWorkingHours (or by an earlier
\* check), so no such candidate reaches the insert.
C8_CreateRejectsOutsideHours ==
    [][\A p \in Procs :
         (/\ procs[p].kind = "create" /\ procs[p].pc = "validate"
          /\ procs'[p] # procs[p]
          /\ ~WithinWorkingHours(procs[p].s, procs[p].startTime))
         => /\ procs'[p].pc = "done"
            /\ procs'[p].result \in {MsgNotice, MsgBlocked, MsgOutside}]_vars

----------------------------------------------------------------------------
(* Claims about concurrent createBooking calls (specification SpecCreate). *)

\* Two finished createBooking calls for the same organizer and start that
\* both passed the notice, blackout and working-hours checks, with no other
\* confirmed booking of the organizer in the way, and that ran concurrently:
\* the one that did not commit began before the other's row was inserted.
SameSlotRace(p, q) ==
    /\ p # q
    /\ procs[p].kind = "create" /\ procs[p].pc = "done"
    /\ procs[q].kind = "create" /\ procs[q].pc = "done"
    /\ procs[p].organizerId = procs[q].organizerId
    /\ procs[p].startTime = procs[q].startTime
    /\ procs[p].result \in {Committed, MsgBooked, MsgConflict}
    /\ procs[q].result \in {Committed, MsgBooked, MsgConflict}
    /\ \A i \in Ids(bookings) :
          (/\ bookings[i].organizerId = procs[p].organizerId
           /\ bookings[i].status = "confirmed"
           /\ Overlap(bookings[i], procs[p]))
          => i \in {procs[p].bookingId, procs[q].bookingId}
    /\ procs[p].result = Committed => procs[q].began < procs[p].bookingId
    /\ procs[q].result = Committed => procs[p].began < procs[q].bookingId

----------------------------------------------------------------------------
(* The slot generator and the validators on enumerated inputs              *)
(* (specification SpecPure): a policy, a bookings table and a clock value  *)
(* are drawn, then the public slots endpoint or a validator is applied.    *)

Row(startTime, duration, status, version) ==
    [organizerId |-> "seed", startTime |-> startTime,
     endTime |-> startTime + duration, status |-> status, version |-> version]

PolicyB ==
    [timezone |-> 0,
     workingHours |-> <<[day |-> 2, start |-> <<9, 0>>, end |-> <<11, 0>>],
                        [day |-> 3, start |-> <<22, 30>>, end |-> <<23, 30>>]>>,
     meetingDuration |-> 30,
     bufferBefore |-> 0,
     bufferAfter |-> 10,
     minimumNotice |-> 0,
     blackoutDates |-> {ISODate(At(2, 1, 0, 0), 0)}]

PolicyC ==
    [timezone |-> 60,
     workingHours |-> <<[day |-> 1, start |-> <<8, 0>>, end |-> <<9, 30>>],
                        [day |-> 1, start |-> <<10, 0>>, end |-> <<12, 0>>]>>,
     meetingDuration |-> 60,
     bufferBefore |-> 15,
     bufferAfter |-> 0,
     minimumNotice |-> 1,
     blackoutDates |-> {}]

\* Tuesday grids 13:20, 13:50, 14:20, 14:50 and 13:10, 13:40, 14:10, 14:40.
PolicyD ==
    [timezone |-> 0,
     workingHours |-> <<[day |-> 2, start |-> <<13, 20>>, end |-> <<15, 20>>]>>,
     meetingDuration |-> 30,
     bufferBefore |-> 5,
     bufferAfter |-> 10,
     minimumNotice |-> 0,
     blackoutDates |-> {}]

PolicyE == [PolicyD EXCEPT !.workingHours =
                <<[day |-> 2, start |-> <<13, 10>>, end |-> <<15, 10>>]>>]

\* New York wall clock, two days of notice, and the Tuesdays of both weeks
\* blacked out although Tuesday has working hours.
PolicyF ==
    [PolicyB EXCEPT !.timezone = -300,
                    !.minimumNotice = 48,
                    !.blackoutDates = {ISODate(At(1, 1, 12, 0), -300),
                                       ISODate(At(2, 1, 12, 0), -300)}]

\* Hourly meetings; Tuesday's range is shorter than one meeting and
\* Wednesday's leaves half an hour over.
PolicyG ==
    [AltSettings EXCEPT !.workingHours =
        <<[day |-> 2, start |-> <<14, 0>>, end |-> <<14, 45>>],
          [day |-> 3, start |-> <<14, 0>>, end |-> <<16, 30>>]>>]

PurePolicies ==
    {SeedSettings, AltSettings, PolicyB, PolicyC, PolicyD, PolicyE, PolicyF,
     PolicyG}

PureClocks == {Now0, At(1, 1, 9, 40), At(1, 0, 14, 0)}

PureRows ==
    {<<>>,
     <<Row(At(1, 1, 10, 0), 30, "confirmed", 1)>>,
     <<Row(At(1, 1, 14, 0), 30, "confirmed", 1),
       Row(At(1, 1, 15, 0), 30, "cancelled", 2),
       [Row(At(1, 1, 14, 30), 60, "confirmed", 1) EXCEPT !.organizerId = "ghost"]>>,
     <<Row(At(1, 1, 9, 40), 30, "confirmed", 2),
       Row(At(2, 0, 7, 0), 60, "confirmed", 1)>>}

PureCandidates ==
    {At(1, 1, 9, 0), At(1, 1, 10, 0), At(1, 1, 10, 15), At(1, 1, 13, 0),
     At(1, 1, 14, 0), At(1, 2, 23, 15), At(1, 2, 23, 45), At(1, 0, 6, 0),
     At(1, 5, 10, 0), At(2, 1, 9, 0), At(2, 0, 7, 30), At(1, 1, 13, 59)}

DisplayZones == {0, 120}

InitPure ==
    /\ bookings \in PureRows
    /\ \E policy \in PurePolicies :
          settings = <<[userId |-> "seed", policy |-> policy]>>
    /\ now \in PureClocks
    /\ procs = [p \in Procs |-> Idle]
    /\ pin = [phase |-> "init"]

\* BookingService.getAvailableSlots: the settings row, the confirmed rows,
\* then generateSlots.
GetAvailableSlots(organizerId, timezone) ==
    /\ pin.phase = "init"
    /\ \E i \in FindSettings(settings, organizerId) :
          pin' = [phase |-> "generated",
                  organizerId |-> organizerId,
                  timezone |-> timezone,
                  s |-> settings[i].policy,
                  slots |-> GenerateSlots(settings[i].policy,
                                FindConfirmed(bookings, organizerId), timezone, now)]
    /\ UNCHANGED <<bookings, settings, now, procs>>

GetAvailableSlotsAgainAccumulating(organizerId, timezone) ==
    /\ pin.phase \in {"generated", "repeated"}
    /\ \E i \in FindSettings(settings, organizerId) :
          pin' = [phase |-> "repeated",
                  organizerId |-> organizerId,
                  timezone |-> timezone,
                  s |-> settings[i].policy,
                  slots |-> pin.slots \o GenerateSlots(settings[i].policy,
                                FindConfirmed(bookings, organizerId), timezone, now),
                  earlier |-> (IF pin.phase = "repeated" THEN pin.earlier ELSE {})
                                \cup {[timezone |-> pin.timezone, slots |-> pin.slots]}]
    /\ UNCHANGED <<bookings, settings, now, procs>>

\* A further call of the slots endpoint on the same service instance; the
\* answers of the calls before it are kept in earlier for comparison.
GetAvailableSlotsAgain(organizerId, timezone) ==
    /\ pin.phase \in {"generated", "repeated"}
    /\ \E i \in FindSettings(settings, organizerId) :
          pin' = [phase |-> "repeated",
                  organizerId |-> organizerId,
                  timezone |-> timezone,
                  s |-> settings[i].policy,
                  slots |-> GenerateSlots(settings[i].policy,
                                FindConfirmed(bookings, organizerId), timezone, now),
                  earlier |-> (IF pin.phase = "repeated" THEN pin.earlier ELSE {})
                                \cup {[timezone |-> pin.timezone, slots |-> pin.slots]}]
    /\ UNCHANGED <<bookings, settings, now, procs>>

\* The invitee posts the start of slot k: createBooking's parse of
\* dto.startTime and its validateSlot, on the same rows and clock.
ValidateGeneratedSlot(k) ==
    /\ pin.phase = "generated"
    /\ k \in 1..Len(pin.slots)
    /\ LET startTimeUtc == FromISO(pin.slots[k].start)
           endTimeUtc == startTimeUtc + pin.s.meetingDuration
       IN  pin' = [phase |-> "booked",
                   startTime |-> startTimeUtc,
                   create |-> BookingValidateSlot(bookings, pin.organizerId, pin.s,
                                  startTimeUtc, endTimeUtc, now)]
    /\ UNCHANGED <<bookings, settings, now, procs>>

\* Both validators on one candidate start, same rows, policy and clock.
ValidateCandidate(organizerId, startTime, excludeBookingId) ==
    /\ pin.phase = "init"
    /\ \E i \in FindSettings(settings, organizerId) :
          LET s == settings[i].policy
              endTime == startTime + s.meetingDuration
          IN  pin' = [phase |-> "validated",
                      organizerId |-> organizerId,
                      s |-> s,
                      startTime |-> startTime,
                      excludeBookingId |-> excludeBookingId,
                      create |-> BookingValidateSlot(bookings, organizerId, s,
                                     startTime, endTime, now),
                      reschedule |-> OrganizerValidateSlot(bookings, organizerId, s,
                                     startTime, endTime, excludeBookingId, now)]
    /\ UNCHANGED <<bookings, settings, now, procs>>

\* The slots the endpoint returned, if it has.
ReturnedSlots == IF pin.phase = "generated" THEN pin.slots ELSE <<>>

NextPure ==
    \/ \E z \in DisplayZones : GetAvailableSlots("seed", z)
    \/ \E z \in DisplayZones : GetAvailableSlotsAgain("seed", z)
    \/ \E k \in 1..Len(ReturnedSlots) : ValidateGeneratedSlot(k)
    \/ \E t \in PureCandidates, x \in 0..MaxBookings + 1 :
          ValidateCandidate("seed", t, x)

SpecPure == InitPure /\ [][NextPure]_vars

----------------------------------------------------------------------------
(* Claims about the generator and the validators (specification SpecPure). *)

\* C6: every slot generateSlots returns is accepted by the booking-creation
\* validateSlot under the same policy, bookings and clock.
C6_GeneratedSlotsValidate ==
    pin.phase = "booked" => pin.create = "ok"

C6_Witness ==
    /\ pin.phase = "booked"
    /\ pin.create = "ok"
    /\ \E i \in Ids(bookings) : bookings[i].status = "confirmed"

\* C7: the creation validator and the reschedule validator give the same
\* verdict whenever the excluded id hides no confirmed booking.
C7_SameVerdict ==
    (/\ pin.phase = "validated"
     /\ \/ pin.excludeBookingId \notin Ids(bookings)
        \/ bookings[pin.excludeBookingId].status # "confirmed")
    => pin.create = pin.reschedule

\* The verdict section 4.2 of the design prescribes: the first violated of
\* notice, blackout, working hours, conflict.
FirstViolated(rows, organizerId, s, startTime, excludeBookingId, clock) ==
    IF startTime < clock + s.minimumNotice * MinutesPerHour THEN MsgNotice
    ELSE IF ISODate(startTime, s.timezone) \in s.blackoutDates THEN MsgBlocked
    ELSE IF ~WithinWorkingHours(s, startTime) THEN MsgOutside
    ELSE IF \E i \in Ids(rows) :
               /\ i # excludeBookingId
               /\ rows[i].organizerId = organizerId
               /\ rows[i].status = "confirmed"
               /\ Overlap(rows[i], [startTime |-> startTime,
                                    endTime |-> startTime + s.meetingDuration])
         THEN MsgConflict
    ELSE "ok"

\* C9: in both flows the reported reason is the first violated check in the
\* order notice, blackout, working hours, conflict.
C9_FirstFailureReported ==
    pin.phase = "validated"
    => /\ pin.create = FirstViolated(bookings, pin.organizerId, pin.s,
                                     pin.startTime, 0, now)
       /\ pin.reschedule = FirstViolated(bookings, pin.organizerId, pin.s,
                                     pin.startTime, pin.excludeBookingId, now)

\* The candidates of the generator's grid that pass the notice rule: on each
\* organizer-local day of the window that is no blackout date and has
\* working hours, start + k * meetingDuration, the slot ending by the end.
GridCandidates(s, clock) ==
    LET first == ISODate(clock, s.timezone)
        days == {d \in first..first + WindowDays :
                    /\ d * MinutesPerDay - s.timezone < clock + WindowDays * MinutesPerDay
                    /\ d \notin s.blackoutDates
                    /\ FindWorkingHour(s.workingHours, (d % 7) + 1) # NoWorkingHour}
        grid == UNION {LET wh == FindWorkingHour(s.workingHours, (d % 7) + 1)
                           date == d * MinutesPerDay - s.timezone
                       IN  {date + ToMinutes(wh.start) + k * s.meetingDuration :
                              k \in {j \in 0..(MinutesPerDay \div s.meetingDuration) :
                                       ToMinutes(wh.start) + (j + 1) * s.meetingDuration
                                           <= ToMinutes(wh.end)}}
                       : d \in days}
    IN  {t \in grid : t >= clock + s.minimumNotice * MinutesPerHour}

\* The instants of the slots the endpoint returned.
Emitted == {FromISO(ReturnedSlots[k].start) : k \in 1..Len(ReturnedSlots)}

BufferExampleDay ==
    LET confirmed == FindConfirmed(bookings, "seed")
    IN  IF /\ pin.phase = "generated"
           /\ pin.s.meetingDuration = 30
           /\ pin.s.bufferBefore = 5
           /\ pin.s.bufferAfter = 10
           /\ Cardinality(confirmed) = 1
           /\ \A b \in confirmed :
                 /\ HHmm(b.startTime, pin.s.timezone) = <<14, 0>>
                 /\ b.endTime = b.startTime + 30
        THEN StartOfDay((CHOOSE b \in confirmed : TRUE).startTime, pin.s.timezone)
        ELSE -1

\* C11: with meetingDuration 30, bufferBefore 5, bufferAfter 10 and one
\* confirmed booking 14:00-14:30, the grid candidates 13:50-14:20 and
\* 14:20-14:50 are not returned and the grid candidates 13:10-13:40 and
\* 14:40-15:10 are returned.
C11_BufferExample ==
    BufferExampleDay # -1
    => \A c \in GridCandidates(pin.s, now) :
          /\ c \in {BufferExampleDay + 13 * MinutesPerHour + 50,
                    BufferExampleDay + 14 * MinutesPerHour + 20}
                => c \notin Emitted
          /\ c \in {BufferExampleDay + 13 * MinutesPerHour + 10,
                    BufferExampleDay + 14 * MinutesPerHour + 40}
                => c \in Emitted

\* The grid 13:20 + 30k is generated: 13:50 and 14:20 are candidates and
\* are left out, 14:50 is returned.
C11_Witness ==
    /\ BufferExampleDay # -1
    /\ {BufferExampleDay + 13 * MinutesPerHour + 50,
        BufferExampleDay + 14 * MinutesPerHour + 20}
           \subseteq (GridCandidates(pin.s, now) \ Emitted)
    /\ BufferExampleDay + 14 * MinutesPerHour + 50 \in Emitted

\* The grid 13:10 + 30k is generated: 13:10 and 14:40 are returned.
C11_GridTen ==
    /\ BufferExampleDay # -1
    /\ {BufferExampleDay + 13 * MinutesPerHour + 10,
        BufferExampleDay + 14 * MinutesPerHour + 40} \subseteq Emitted

\* now.plus({ hours: minimumNotice }) as the claims state it.
NoticeBoundary(s, clock) == clock + s.minimumNotice * MinutesPerHour

\* C12: both validators answer InsufficientNotice exactly for the starts
\* strictly before now + minimumNotice hours (a start equal to it is not
\* rejected for notice); generateSlots returns no slot before that instant
\* and returns every conflict-free grid candidate at or after it.
C12_NoticeBoundaryInclusive ==
    /\ pin.phase = "validated"
         => /\ (pin.create = MsgNotice)
                  <=> pin.startTime < NoticeBoundary(pin.s, now)
            /\ (pin.reschedule = MsgNotice)
                  <=> pin.startTime < NoticeBoundary(pin.s, now)
    /\ pin.phase = "generated"
         => /\ \A e \in Emitted : e >= NoticeBoundary(pin.s, now)
            /\ \A c \in GridCandidates(pin.s, now) :
                  (c = NoticeBoundary(pin.s, now)
                   /\ FindConfirmed(bookings, pin.organizerId) = {})
                  => c \in Emitted

\* A candidate exactly at now + minimumNotice hours, with a notice of 24
\* hours, passes both validators.
C12_Witness ==
    /\ pin.phase = "validated"
    /\ pin.s.minimumNotice > 0
    /\ pin.startTime = NoticeBoundary(pin.s, now)
    /\ pin.create = "ok"
    /\ pin.reschedule = "ok"

\* The generator returns the grid slot that starts exactly at the boundary.
C12_GeneratedAtBoundary ==
    /\ pin.phase = "generated"
    /\ pin.s.minimumNotice > 0
    /\ NoticeBoundary(pin.s, now) \in Emitted

\* A candidate one minute short of the boundary.
C12_OneMinuteShort ==
    /\ pin.phase = "validated"
    /\ pin.startTime + 1 = NoticeBoundary(pin.s, now)
    /\ pin.create = MsgNotice

\* The organizer-local date of instant t is one of the blackout dates.
OnBlackoutDate(s, t) == ISODate(t, s.timezone) \in s.blackoutDates

\* C13 as stated: no returned slot lies on a blackout date, and validateSlot
\* rejects every candidate on a blackout date with 'Date is blocked'.
C13_BlackoutAlwaysReported ==
    /\ pin.phase = "generated"
         => \A e \in Emitted : ~OnBlackoutDate(pin.s, e)
    /\ (pin.phase = "validated" /\ OnBlackoutDate(pin.s, pin.startTime))
         => pin.create = MsgBlocked

\* C13 amended: no returned slot lies on a blackout date, and both validators
\* reject every candidate on a blackout date: with 'Date is blocked' when the
\* start satisfies the minimum notice, with the notice message otherwise.
C13_BlackoutRejected ==
    /\ pin.phase = "generated"
         => \A e \in Emitted : ~OnBlackoutDate(pin.s, e)
    /\ (pin.phase = "validated" /\ OnBlackoutDate(pin.s, pin.startTime))
         => LET expected == IF pin.startTime < NoticeBoundary(pin.s, now)
                            THEN MsgNotice ELSE MsgBlocked
            IN  pin.create = expected /\ pin.reschedule = expected

\* Slots are returned while a blackout date inside the window, past the
\* notice boundary, has a working-hours entry for its weekday.
C13_Witness ==
    /\ pin.phase = "generated"
    /\ Emitted # {}
    /\ \E d \in pin.s.blackoutDates :
          LET wh == FindWorkingHour(pin.s.workingHours, (d % 7) + 1)
              first == d * MinutesPerDay - pin.s.timezone + ToMinutes(wh.start)
          IN  /\ wh # NoWorkingHour
              /\ first >= NoticeBoundary(pin.s, now)
              /\ first < now + WindowDays * MinutesPerDay

\* A candidate on a blackout date that satisfies the notice is refused with
\* 'Date is blocked'.
C13_BlockedReported ==
    /\ pin.phase = "validated"
    /\ OnBlackoutDate(pin.s, pin.startTime)
    /\ pin.create = MsgBlocked

\* C14: every returned slot starts inside [now, now + 14 days), whatever the
\* time of day of now.
C14_WithinWindow ==
    pin.phase = "generated"
    => \A e \in Emitted : now <= e /\ e < now + WindowDays * MinutesPerDay

\* C15: every returned slot lasts meetingDuration, starts on the grid
\* workingHours.start + k * meetingDuration of its organizer-local day and
\* ends by that day's working-hours end; so no partial trailing slot is
\* returned and a range shorter than meetingDuration gives no slot.
C15_WholeSlotsOnGrid ==
    pin.phase = "generated"
    => \A k \in 1..Len(pin.slots) :
          LET slotStart == FromISO(pin.slots[k].start)
              slotEnd == FromISO(pin.slots[k].end)
              date == StartOfDay(slotStart, pin.s.timezone)
              wh == FindWorkingHour(pin.s.workingHours,
                                    Weekday(slotStart, pin.s.timezone))
          IN  /\ slotEnd = slotStart + pin.s.meetingDuration
              /\ wh # NoWorkingHour
              /\ \E j \in 0..(MinutesPerDay \div pin.s.meetingDuration) :
                    slotStart = date + ToMinutes(wh.start) + j * pin.s.meetingDuration
              /\ slotEnd <= date + ToMinutes(wh.end)

\* Slots are returned under a policy with one range shorter than a meeting
\* and one range that is no multiple of the meeting length.
C15_Witness ==
    /\ pin.phase = "generated"
    /\ pin.slots # <<>>
    /\ \E i \in 1..Len(pin.s.workingHours) :
          LET wh == pin.s.workingHours[i]
          IN  /\ ToMinutes(wh.start) < ToMinutes(wh.end)
              /\ ToMinutes(wh.end) - ToMinutes(wh.start) < pin.s.meetingDuration
    /\ \E i \in 1..Len(pin.s.workingHours) :
          LET wh == pin.s.workingHours[i]
          IN  /\ ToMinutes(wh.end) - ToMinutes(wh.start) > pin.s.meetingDuration
              /\ (ToMinutes(wh.end) - ToMinutes(wh.start)) % pin.s.meetingDuration # 0

----------------------------------------------------------------------------
(* Claims about versions and failed requests (specifications Spec and      *)
(* SpecRequests).                                                          *)

\* Process p's createBooking or reschedule ends in this step.
Ends(p) ==
    /\ procs[p].pc # "done"
    /\ procs'[p].pc = "done"
    /\ procs'[p].kind = "create" \/ procs'[p].action # "cancel"

\* C17: a row is created with version 1 and status 'confirmed'; a reschedule
\* that succeeds raises the row's version by exactly 1; no step lowers a
\* version, and a request that fails leaves every version as it was.
C17_VersionDiscipline ==
    [][/\ \A i \in Ids(bookings') :
             IF i \in Ids(bookings)
             THEN bookings'[i].version >= bookings[i].version
             ELSE bookings'[i].version = 1 /\ bookings'[i].status = "confirmed"
       /\ \A p \in Procs :
             (RescheduleSaves(p) /\ procs'[p].result = Committed)
             => bookings'[procs[p].bookingId].version
                   = bookings[procs[p].bookingId].version + 1
       /\ \A p \in Procs :
             (Ends(p) /\ procs'[p].result # Committed)
             => \A i \in Ids(bookings) :
                   bookings'[i].version = bookings[i].version]_vars

C19_RescheduleViolationIsConflict ==
    [][\A p \in Procs :
         (/\ RescheduleSaves(p)
          /\ ViolatesUniqueIndex(bookings, procs[p].bookingId,
                 [bookings[procs[p].bookingId] EXCEPT
                     !.startTime = procs[p].startTime]))
         => procs'[p].result = MsgBooked]_vars

\* The messages validateSlot of the creation path throws.
ValidationFailures == {MsgNotice, MsgBlocked, MsgOutside, MsgConflict}

\* C20: the response to a validation failure of createBooking is not the
\* opaque 'Internal server error', and differs from the response to each
\* other kind of validation failure.
C20_ValidationFailuresDistinct ==
    (pin.phase = "validated" /\ pin.create \in ValidationFailures)
    => /\ ErrorHandler(pin.create).error # MsgInternal
       /\ \A other \in ValidationFailures \ {pin.create} :
             ErrorHandler(other) # ErrorHandler(pin.create)

\* The confirmed bookings of the organizer, other than the one being
\* rescheduled, whose interval intersects the validated candidate's.
OtherOverlapping ==
    {i \in Ids(bookings) :
        /\ i # pin.excludeBookingId
        /\ bookings[i].organizerId = pin.organizerId
        /\ bookings[i].status = "confirmed"
        /\ Overlap(bookings[i], [startTime |-> pin.startTime,
                                 endTime |-> pin.startTime + pin.s.meetingDuration])}

\* A reschedule of a stored confirmed booking of the organizer was validated.
RescheduleValidated ==
    /\ pin.phase = "validated"
    /\ pin.excludeBookingId \in Ids(bookings)
    /\ bookings[pin.excludeBookingId].status = "confirmed"
    /\ bookings[pin.excludeBookingId].organizerId = pin.organizerId

\* C26 as stated: a reschedule that overlaps no other confirmed booking is
\* not refused with SlotConflict, and one that overlaps another confirmed
\* booking of the organizer is refused with SlotConflict.
C26_OtherOverlapIsSlotConflict ==
    RescheduleValidated
    => IF OtherOverlapping = {} THEN pin.reschedule # MsgConflict
       ELSE pin.reschedule = MsgConflict

\* C26 amended: a reschedule that overlaps no other confirmed booking is not
\* refused with SlotConflict; one that overlaps another confirmed booking of
\* the organizer is always refused, with SlotConflict when it passes the
\* notice, blackout and working-hours checks and with the reason of the
\* first of those checks it fails otherwise.
C26_SelfExcludedFromScan ==
    RescheduleValidated
    => LET policyVerdict == OrganizerValidateSlot(<<>>, pin.organizerId, pin.s,
                                pin.startTime, pin.startTime + pin.s.meetingDuration,
                                pin.excludeBookingId, now)
       IN  IF OtherOverlapping = {} THEN pin.reschedule = policyVerdict
           ELSE pin.reschedule = (IF policyVerdict = "ok" THEN MsgConflict
                                  ELSE policyVerdict)

\* A booking is rescheduled onto its own current start and passes.
C26_Witness ==
    /\ RescheduleValidated
    /\ pin.startTime = bookings[pin.excludeBookingId].startTime
    /\ pin.reschedule = "ok"

\* A reschedule onto another confirmed booking is refused with SlotConflict.
C26_OtherRefused ==
    /\ RescheduleValidated
    /\ OtherOverlapping # {}
    /\ pin.reschedule = MsgConflict

----------------------------------------------------------------------------
(* Claims about requests that do not overlap (specification                *)
(* SpecSequential).                                                        *)

\* The policy stored for the seed organizer.
StoredPolicy == settings[CHOOSE i \in FindSettings(settings, "seed") : TRUE].policy

\* C21: a step that changes the organizer_settings table leaves the bookings
\* table as it is: every row keeps its startTime, endTime, status and
\* version, whether or not it fits the new policy.
C21_SettingsNotRetroactive ==
    [][settings' # settings => bookings' = bookings]_vars

\* The policy was changed to hourly meetings and a confirmed booking made
\* under the half-hour policy is still stored with its half hour; it starts
\* outside the new working hours.
C21_Witness ==
    /\ StoredPolicy = AltSettings
    /\ \E i \in Ids(bookings) :
          /\ bookings[i].status = "confirmed"
          /\ bookings[i].endTime - bookings[i].startTime
                = SeedSettings.meetingDuration
          /\ ~WithinWorkingHours(AltSettings, bookings[i].startTime)

----------------------------------------------------------------------------
(* Claims about concurrent updateSettings calls (specification             *)
(* SpecSettings).                                                          *)

\* C22: in every reachable state each organizer has at most one row in
\* organizer_settings, also after two concurrent first-time updateSettings
\* calls of one organizer.
C22_AtMostOnePolicy ==
    \A o \in Organizers : Cardinality(FindSettings(settings, o)) <= 1

----------------------------------------------------------------------------
(* Claims about the caller of PATCH /organizer/bookings/:id (specification *)
(* SpecForeign).                                                           *)

\* C24: a cancel or reschedule requested by an organizer other than the
\* booking's organizerId is denied and leaves the booking unchanged.
C24_OnlyOwnBookings ==
    [][\A p \in Procs :
         (/\ procs[p].kind = "update"
          /\ procs[p].pc \in {"cancelSave", "save"}
          /\ procs'[p].pc = "done"
          /\ bookings[procs[p].bookingId].organizerId # SessionUser)
         => /\ procs'[p].result # Committed
            /\ bookings' = bookings]_vars

----------------------------------------------------------------------------
(* Claims about termination of createBooking (specification                *)
(* SpecCreateLive).                                                        *)

\* The outcomes of createBooking: the booking, or one rejection.
CreateOutcomes ==
    {Committed, MsgOrganizerNotFound, MsgBooked} \cup ValidationFailures

----------------------------------------------------------------------------
(* Claims about requests served one after the other, settings changes      *)
(* included (specification SpecSequential).                                *)

\* C27: when every request runs to completion before the next starts, any
\* two distinct confirmed bookings of one organizer are disjoint: one ends
\* no later than the other starts, also when meetingDuration was changed
\* between the requests that stored them.
C27_SequentialDisjoint ==
    \A i \in Ids(bookings) : \A j \in Ids(bookings) \ {i} :
        (/\ bookings[i].status = "confirmed"
         /\ bookings[j].status = "confirmed"
         /\ bookings[i].organizerId = bookings[j].organizerId)
        => \/ bookings[i].endTime <= bookings[j].startTime
           \/ bookings[j].endTime <= bookings[i].startTime

\* Two confirmed bookings of one organizer with different lengths are
\* stored: meetingDuration was changed between their requests.
C27_Witness ==
    \E i \in Ids(bookings) : \E j \in Ids(bookings) \ {i} :
        /\ bookings[i].status = "confirmed"
        /\ bookings[j].status = "confirmed"
        /\ bookings[i].organizerId = bookings[j].organizerId
        /\ bookings[i].endTime - bookings[i].startTime
              # bookings[j].endTime - bookings[j].startTime

\* A request was refused because of a booking of another length.
C27_RefusedAcrossDurations ==
    \E p \in Procs :
        /\ procs[p].pc = "done" /\ procs[p].result = MsgConflict
        /\ \E i \in Ids(bookings) :
              /\ bookings[i].status = "confirmed"
              /\ bookings[i].endTime - bookings[i].startTime
                    # StoredPolicy.meetingDuration

\* The cancelled bookings of organizerId that start at startTime.
CancelledAt(organizerId, startTime) ==
    {i \in Ids(bookings) : /\ bookings[i].status = "cancelled"
                           /\ bookings[i].organizerId = organizerId
                           /\ bookings[i].startTime = startTime}

\* The starts generateSlots returns for the seed organizer in this state.
SlotsNow ==
    LET slots == GenerateSlots(StoredPolicy, FindConfirmed(bookings, "seed"), 0, now)
    IN  {FromISO(slots[k].start) : k \in 1..Len(slots)}

\* Every grid candidate that meets a cancelled booking of the seed organizer
\* and, widened by the buffers, no confirmed one is among the slots
\* generateSlots returns.
FreedSlotsOffered ==
    (\E i \in Ids(bookings) : bookings[i].status = "cancelled")
    => {c \in GridCandidates(StoredPolicy, now) :
          /\ \E i \in Ids(bookings) :
                /\ bookings[i].status = "cancelled"
                /\ bookings[i].organizerId = "seed"
                /\ c < bookings[i].endTime
                /\ c + StoredPolicy.meetingDuration > bookings[i].startTime
          /\ \A j \in Ids(bookings) :
                (bookings[j].status = "confirmed" /\ bookings[j].organizerId = "seed")
                => ~(/\ c - StoredPolicy.bufferBefore < bookings[j].endTime
                     /\ c + StoredPolicy.meetingDuration
                           + StoredPolicy.bufferAfter > bookings[j].startTime)}
       \subseteq SlotsNow

\* C28: after a booking that started at S was cancelled, a createBooking of
\* the same organizer for S that passes the policy checks and meets no
\* confirmed booking is not refused by the conflict scan and its insert
\* commits; and between requests generateSlots returns every grid candidate
\* that meets a cancelled booking and, widened by the buffers, no confirmed
\* one.
C28_CancelFreesSlot ==
    /\ [][\A p \in Procs :
            (/\ procs[p].kind = "create" /\ procs[p].pc = "validate"
             /\ procs'[p] # procs[p]
             /\ CancelledAt(procs[p].organizerId, procs[p].startTime) # {}
             /\ BookingValidateSlot(<<>>, procs[p].organizerId, procs[p].s,
                                    procs[p].startTime, procs[p].endTime, now) = "ok"
             /\ \A i \in Ids(bookings) :
                   (bookings[i].status = "confirmed"
                    /\ bookings[i].organizerId = procs[p].organizerId)
                   => ~Overlap(bookings[i], procs[p]))
            => procs'[p].pc = "save"]_vars
    /\ [][\A p \in Procs :
            (/\ procs[p].kind = "create" /\ procs[p].pc = "save"
             /\ procs'[p] # procs[p]
             /\ CancelledAt(procs[p].organizerId, procs[p].startTime) # {})
            => /\ procs'[p].result = Committed
               /\ Len(bookings') = Len(bookings) + 1
               /\ bookings'[Len(bookings')].status = "confirmed"
               /\ bookings'[Len(bookings')].startTime = procs[p].startTime]_vars
    /\ []((\A p \in Procs : procs[p].pc = "idle") => FreedSlotsOffered)

\* A booking was created on the start of a cancelled booking of the same
\* organizer, and generateSlots returns a slot that meets a cancelled booking.
C28_Witness ==
    /\ \E p \in Procs :
          /\ procs[p].kind = "create" /\ procs[p].pc = "done"
          /\ procs[p].result = Committed
          /\ bookings[procs[p].bookingId].status = "confirmed"
          /\ \E i \in CancelledAt(procs[p].organizerId, procs[p].startTime) :
                i < procs[p].bookingId

\* generateSlots returns a slot on the interval of a cancelled booking.
C28_SlotOffered ==
    \E i \in Ids(bookings) :
        /\ \A p \in Procs : procs[p].pc = "idle"
        /\ bookings[i].status = "cancelled" /\ bookings[i].organizerId = "seed"
        /\ bookings[i].startTime \in SlotsNow

\* C29: a step taken while a booking is cancelled leaves that booking's
\* startTime, endTime and version as they are.
C29_CancelledIsFrozen ==
    [][\A i \in Ids(bookings) :
         bookings[i].status = "cancelled"
         => /\ bookings'[i].startTime = bookings[i].startTime
            /\ bookings'[i].endTime = bookings[i].endTime
            /\ bookings'[i].version = bookings[i].version]_vars

----------------------------------------------------------------------------
(* Claim about the working-hours check of the reschedule validator         *)
(* (specification SpecPure).                                               *)

\* C30: a candidate on a weekday with working hours whose interval
\* [start, start + meetingDuration) runs past the end of that day's working
\* hours, the end falling on the next local day included, is refused by the
\* reschedule validator; with OutsideWorkingHours unless the notice or the
\* blackout check refuses it first.
C30_PastEndRejected ==
    pin.phase = "validated"
    => LET wh == FindWorkingHour(pin.s.workingHours,
                                 Weekday(pin.startTime, pin.s.timezone))
       IN  (/\ wh # NoWorkingHour
            /\ (LocalMinutes(pin.startTime, pin.s.timezone) % MinutesPerDay)
                  + pin.s.meetingDuration > ToMinutes(wh.end))
           => pin.reschedule \in {MsgNotice, MsgBlocked, MsgOutside}

====
